---- MODULE Spec2Model ----
(***************************************************************************)
(* The AI Hug Video Generator: the App component (workflow controller and  *)
(* progress ticker), the two ImageUploader slots, combineImages and the    *)
(* generation client generateHuggingVideo / pollOperation.                 *)
(*                                                                         *)
(* React state updates made in one handler or one promise continuation are *)
(* batched into one render; the render and the effects it schedules are    *)
(* part of the action that made the updates.  A setter called on an        *)
(* unmounted component changes nothing.                                    *)
(***************************************************************************)
EXTENDS Integers, Sequences, FiniteSets, TLC

\* ---------------------------------------------------------------- bounds
\* accepted submits explored
MaxAttempts == 2
\* status queries one attempt may issue before the job must answer done
MaxPolls == 2
\* file reads that may be pending at once (both slots together)
MaxPending == 2
\* the largest width and height of a decoded image that combineImages is
\* applied to; 7 is the least height that does not divide the target height
MaxDim == 7
\* distinct image files the user picks from
MaxFile == 2

\* ------------------------------------------------------------- constants
Slots == {"left", "right"}
Files == 1..MaxFile
Attempts == 1..MaxAttempts

\* null of an image state, of generatedVideoUrl, of intervalRef.current
Null == 0
\* event.target.files of a change event: no file, a file whose type does not
\* start with "image/", or one of the image files
NoFile == 0
NonImage == -1
Selections == {NoFile, NonImage} \cup Files
\* null of a string state (error, the uploader's error)
NoMsg == <<>>

loadingMessages ==
    << "Warming up the digital actors...",
       "Choreographing the embrace...",
       "Setting the scene for the animation...",
       "Rendering the initial frames...",
       "This can take a few minutes, please be patient.",
       "AI is composing the video sequence...",
       "Almost there, adding the final touches..." >>

\* Array.prototype.indexOf, 0-based, -1 when absent
indexOf(arr, x) ==
    IF \E i \in 1..Len(arr) : arr[i] = x
    THEN (CHOOSE i \in 1..Len(arr) : arr[i] = x /\ \A j \in 1..(i-1) : arr[j] # x) - 1
    ELSE -1

\* mutant: the updater wraps one message early, never showing the last
nextLoadingMessageShortCycle(prev) ==
    LET currentIndex == indexOf(loadingMessages, prev)
        nextIndex == (currentIndex + 1) % (Len(loadingMessages) - 1)
    IN loadingMessages[nextIndex + 1]

\* the updater passed to setLoadingMessage by the interval callback
nextLoadingMessage(prev) ==
    LET currentIndex == indexOf(loadingMessages, prev)
        nextIndex == (currentIndex + 1) % Len(loadingMessages)
    IN loadingMessages[nextIndex + 1]

\* ------------------------------------------------------------- messages
\* A message is a sequence of text pieces; concatenation is \o.
MissingInputMsg == << "Please upload both images before generating." >>
LeftLoadMsg == << "Failed to load left image." >>
RightLoadMsg == << "Failed to load right image." >>
NoContextMsg == << "Could not get canvas context" >>
NoLinkMsg == << "Video generation failed: no download link provided." >>
DownloadPrefix == << "Failed to download video: " >>
ServicePrefix == << "An error occurred with the AI service: " >>
UnknownMsg == << "An unknown error occurred during video generation." >>
UnexpectedMsg == << "An unexpected error occurred." >>
InvalidFileMsg == << "Please upload a valid image file (PNG, JPG, etc.)." >>
ReadFailMsg == << "Failed to read the file." >>

\* messages the remote collaborator may fail with, and HTTP status texts
UpstreamMsgs == { << "quota exceeded" >> }
StatusTexts == { << "Forbidden" >> }

\* A thrown value: an Error instance with a message, or some other value
\* (a string, a plain object) whose text is message.
Thrown == [isError : BOOLEAN, message : UpstreamMsgs]
NewError(m) == [isError |-> TRUE, message |-> m]

\* an Operation as returned by generateVideos / getVideosOperation:
\* done, and whether response.generatedVideos[0].video.uri is there
Operations == [done : BOOLEAN, uri : BOOLEAN]

\* ----------------------------------------------------------------- state
VARIABLES
    leftImage, rightImage,   \* App state: Null or the file held
    generatedVideoUrl,       \* App state: Null or the object URL (attempt number)
    isLoading,               \* App state
    loadingMessage,          \* App state
    error,                   \* App state: NoMsg or a message
    intervalRef,             \* intervalRef.current: Null or a timer id
    timers,                  \* the intervals window holds that are not cleared
    nextTimer,               \* the id the next window.setInterval returns
    mounted,                 \* the App component is mounted
    preview,                 \* per slot: the uploader's preview state
    upError,                 \* per slot: the uploader's error state
    pending,                 \* FileReaders reading: sequence of [slot, file, live]
    pc,                      \* per attempt: where its async chain stands
    leftLoaded, rightLoaded, \* per attempt: combineImages' flags
    result,                  \* per attempt: pollOperation's result
    trace,                   \* history: the calls the latest attempt's chain made
                             \* and the answers it read, in order
    thrown,                  \* history: the values thrown inside the try block of
                             \* generateHuggingVideo in the latest attempt
    leftImg, rightImg,       \* combineImages: the decoded images' width and height
    canvas,                  \* combineImages: NoCanvas or the canvas drawn
    selected                 \* history: per slot, what the user chose last
                             \* (a removal counts as no file)

workflowVars == << leftImage, rightImage, generatedVideoUrl, isLoading, loadingMessage,
                   error, intervalRef, timers, nextTimer, mounted, preview, upError,
                   pending, pc, leftLoaded, rightLoaded, result, trace, thrown >>
canvasVars == << leftImg, rightImg, canvas >>
vars == << workflowVars, canvasVars, selected >>

appVars == << leftImage, rightImage, generatedVideoUrl, isLoading, loadingMessage, error >>
tickerVars == << intervalRef, timers, nextTimer >>
uploaderVars == << preview, upError, pending >>
chainVars == << pc, leftLoaded, rightLoaded, result >>
histVars == << trace, thrown >>

NoOperation == [done |-> FALSE, uri |-> FALSE]

\* an HTMLImageElement not loaded, and its width and height once decoded
NoImage == [width |-> 0, height |-> 0]
Images == [width : 1..MaxDim, height : 1..MaxDim]
NoCanvas == [width |-> 0, height |-> 0, rightX |-> [num |-> 0, den |-> 1]]

InitApp ==
    /\ leftImage = Null /\ rightImage = Null
    /\ generatedVideoUrl = Null
    /\ isLoading = FALSE
    /\ loadingMessage = loadingMessages[1]
    /\ error = NoMsg
    /\ intervalRef = Null
    /\ timers = {}
    /\ nextTimer = 1
    /\ mounted = TRUE
    /\ preview = [s \in Slots |-> Null]
    /\ upError = [s \in Slots |-> NoMsg]
    /\ pending = << >>
    /\ pc = [a \in Attempts |-> "none"]
    /\ leftLoaded = [a \in Attempts |-> FALSE]
    /\ rightLoaded = [a \in Attempts |-> FALSE]
    /\ result = [a \in Attempts |-> NoOperation]
    /\ trace = << >>
    /\ thrown = << >>

\* The workflow model keeps the composite as the "composite" event of the
\* trace; the canvas itself is drawn in specification SpecCombine.
Init ==
    /\ InitApp
    /\ leftImg = NoImage /\ rightImg = NoImage
    /\ canvas = NoCanvas
    /\ selected = [s \in Slots |-> NoFile]

\* ------------------------------------------------------------- rendering
\* the block holding both uploaders and the submit button is rendered
UploadersShownIf(video, loading) == video = Null /\ ~loading
UploadersShown == mounted /\ UploadersShownIf(generatedVideoUrl, isLoading)

\* mutant: the submit button stays rendered while loading
SubmitShownWhileLoading == mounted /\ generatedVideoUrl = Null

\* the submit button can be clicked: its block is rendered.  The button's
\* disabled attribute repeats the handler's own test of the two inputs and
\* is left to the handler, so that submits with an input missing reach it.
SubmitShown == mounted /\ generatedVideoUrl = Null /\ ~isLoading

\* mutant: the ticker effect returns no cleanup
effectCleanupMissing(ref, tm) == tm

\* the cleanup the ticker effect returns: the timers left
effectCleanup(ref, tm) == IF ref # Null THEN tm \ {ref} ELSE tm

\* the ticker effect's body, run with the new isLoading
effectBody(loading, ref, tm, nxt) ==
    IF loading
    THEN [ref |-> nxt, timers |-> tm \cup {nxt}, next |-> nxt + 1]
    ELSE IF ref # Null
         THEN [ref |-> Null, timers |-> tm \ {ref}, next |-> nxt]
         ELSE [ref |-> ref, timers |-> tm, next |-> nxt]

\* React destroys both ImageUploader instances; FileReaders they started
\* keep reading, with setters of a destroyed instance
DestroyUploaders ==
    /\ preview' = [s \in Slots |-> Null]
    /\ upError' = [s \in Slots |-> NoMsg]
    /\ pending' = [i \in 1..Len(pending) |-> [pending[i] EXCEPT !.live = FALSE]]

\* what a render of the mounted App with the new isLoading and
\* generatedVideoUrl does beyond the App state: the effect with dependency
\* [isLoading] (the cleanup its previous run returned, then its body), and
\* the unmounting of the uploaders when their block stops being rendered
Rerender(newLoading, newVideo) ==
    /\ IF newLoading # isLoading
       THEN LET e == effectBody(newLoading, intervalRef,
                                effectCleanup(intervalRef, timers), nextTimer)
            IN /\ intervalRef' = e.ref
               /\ timers' = e.timers
               /\ nextTimer' = e.next
       ELSE UNCHANGED tickerVars
    /\ IF UploadersShown /\ ~UploadersShownIf(newVideo, newLoading)
       THEN DestroyUploaders
       ELSE UNCHANGED uploaderVars

\* the App state a slot's onImageUpload writes: leftImage or rightImage
slotImage(s) == IF s = "left" THEN leftImage ELSE rightImage

\* ------------------------------------------------------------- uploaders
\* onImageUpload of a slot: setLeftImage or setRightImage
onImageUpload(s, v) ==
    IF s = "left"
    THEN leftImage' = v /\ UNCHANGED rightImage
    ELSE rightImage' = v /\ UNCHANGED leftImage

RemoveAt(q, i) == [j \in 1..(Len(q) - 1) |-> IF j < i THEN q[j] ELSE q[j + 1]]

\* mutant: a file of a wrong type is reported through the App's error banner
handleFileChangeReportingToApp(s, sel) ==
    /\ UploadersShown
    /\ preview[s] = Null
    /\ IF sel = NoFile
       THEN /\ preview' = [preview EXCEPT ![s] = Null]
            /\ onImageUpload(s, Null)
            /\ UNCHANGED << upError, pending, error >>
       ELSE IF sel = NonImage
       THEN /\ error' = InvalidFileMsg
            /\ preview' = [preview EXCEPT ![s] = Null]
            /\ onImageUpload(s, Null)
            /\ UNCHANGED << upError, pending >>
       ELSE /\ upError' = [upError EXCEPT ![s] = NoMsg]
            /\ pending' = Append(pending, [slot |-> s, file |-> sel, live |-> TRUE])
            /\ UNCHANGED << preview, leftImage, rightImage, error >>
    /\ UNCHANGED << generatedVideoUrl, isLoading, loadingMessage >>
    /\ UNCHANGED << tickerVars, mounted, chainVars, histVars >>

handleFileChange(s, sel) ==
    /\ UploadersShown
    /\ preview[s] = Null
    /\ IF sel = NoFile
       THEN /\ preview' = [preview EXCEPT ![s] = Null]
            /\ onImageUpload(s, Null)
            /\ UNCHANGED << upError, pending >>
       ELSE IF sel = NonImage
       THEN /\ upError' = [upError EXCEPT ![s] = InvalidFileMsg]
            /\ preview' = [preview EXCEPT ![s] = Null]
            /\ onImageUpload(s, Null)
            /\ UNCHANGED pending
       ELSE /\ upError' = [upError EXCEPT ![s] = NoMsg]
            /\ pending' = Append(pending, [slot |-> s, file |-> sel, live |-> TRUE])
            /\ UNCHANGED << preview, leftImage, rightImage >>
    /\ UNCHANGED << generatedVideoUrl, isLoading, loadingMessage, error >>
    /\ UNCHANGED << tickerVars, mounted, chainVars, histVars >>

\* a FileReader finishes: load then loadend, or error then loadend (whose
\* handler throws on the null result before it sets anything).  The setters
\* of an uploader instance that was destroyed (live = FALSE) change nothing;
\* onImageUpload is App's setter and App is mounted.
readerEnds(i, ok) ==
    /\ mounted
    /\ i \in 1..Len(pending)
    /\ LET r == pending[i] IN
       /\ IF ok
          THEN /\ preview' = IF r.live THEN [preview EXCEPT ![r.slot] = r.file] ELSE preview
               /\ UNCHANGED upError
               /\ onImageUpload(r.slot, r.file)
          ELSE /\ upError' = IF r.live THEN [upError EXCEPT ![r.slot] = ReadFailMsg] ELSE upError
               /\ UNCHANGED preview
               /\ onImageUpload(r.slot, Null)
    /\ pending' = RemoveAt(pending, i)
    /\ UNCHANGED << generatedVideoUrl, isLoading, loadingMessage, error >>
    /\ UNCHANGED << tickerVars, mounted, chainVars, histVars >>

handleRemoveImage(s) ==
    /\ UploadersShown
    /\ preview[s] # Null
    /\ preview' = [preview EXCEPT ![s] = Null]
    /\ onImageUpload(s, Null)
    /\ UNCHANGED << upError, pending >>
    /\ UNCHANGED << generatedVideoUrl, isLoading, loadingMessage, error >>
    /\ UNCHANGED << tickerVars, mounted, chainVars, histVars >>

\* -------------------------------------------------------------- workflow
Started == {a \in Attempts : pc[a] # "none"}
InFlight == {a \in Attempts : pc[a] \notin {"none", "done"}}

Count(q, x) == Cardinality({i \in 1..Len(q) : q[i] = x})

\* the catch of handleGenerateVideo: the message it passes to setError
handlerMessage(err) == IF err.isError THEN err.message ELSE UnexpectedMsg

\* mutant: the catch rethrows the caught value as it is
serviceCatchRethrow(e) == e

\* the catch of generateHuggingVideo: the Error it throws for a caught value
serviceCatch(e) ==
    IF e.isError THEN NewError(ServicePrefix \o e.message) ELSE NewError(UnknownMsg)

\* mutant: handleGenerateVideo without its finally block, so that a failure
\* sets the error and leaves isLoading true
settleWithoutFinally(a, ok, value) ==
    /\ pc' = [pc EXCEPT ![a] = "done"]
    /\ IF mounted
       THEN /\ IF ok
               THEN generatedVideoUrl' = value /\ UNCHANGED error
               ELSE error' = value /\ UNCHANGED generatedVideoUrl
            /\ isLoading' = (isLoading /\ ~ok)
            /\ Rerender(isLoading /\ ~ok, IF ok THEN value ELSE generatedVideoUrl)
       ELSE UNCHANGED << generatedVideoUrl, error, isLoading, tickerVars, uploaderVars >>
    /\ UNCHANGED << leftImage, rightImage, loadingMessage, mounted >>

\* the end of handleGenerateVideo for attempt a: setGeneratedVideoUrl on
\* success, the catch's setError on failure, and finally setIsLoading(false)
settle(a, ok, value) ==
    /\ pc' = [pc EXCEPT ![a] = "done"]
    /\ IF mounted
       THEN /\ IF ok
               THEN generatedVideoUrl' = value /\ UNCHANGED error
               ELSE error' = value /\ UNCHANGED generatedVideoUrl
            /\ isLoading' = FALSE
            /\ Rerender(FALSE, IF ok THEN value ELSE generatedVideoUrl)
       ELSE UNCHANGED << generatedVideoUrl, error, isLoading, tickerVars, uploaderVars >>
    /\ UNCHANGED << leftImage, rightImage, loadingMessage, mounted >>

\* mutant: a failure of the generation client is retried once by submitting
\* the job again
serviceFailsRetry(a, e, tr) ==
    /\ thrown' = Append(thrown, e)
    /\ IF Count(tr, "generateVideos") < 2
       THEN /\ pc' = [pc EXCEPT ![a] = "generateVideos"]
            /\ trace' = Append(tr, "generateVideos")
            /\ UNCHANGED << appVars, tickerVars, mounted, uploaderVars >>
       ELSE /\ settle(a, FALSE, handlerMessage(serviceCatch(e)))
            /\ trace' = tr

\* a value thrown inside generateHuggingVideo's try reaches the handler; tr
\* is the history up to the throw
serviceFails(a, e, tr) ==
    /\ thrown' = Append(thrown, e)
    /\ trace' = tr
    /\ settle(a, FALSE, handlerMessage(serviceCatch(e)))

\* mutant: the handler tests the left input only
inputsMissingLeftOnly(l, r) == l = Null

\* the handler's test of the two inputs
inputsMissing(l, r) == l = Null \/ r = Null

\* mutant: an accepted submit does not clear the error
submitUpdatesKeepError(err, video) ==
    [isLoading |-> TRUE, error |-> err, generatedVideoUrl |-> Null]

\* the three state updates an accepted submit makes before its try block
submitUpdates(err, video) ==
    [isLoading |-> TRUE, error |-> NoMsg, generatedVideoUrl |-> Null]

handleGenerateVideo ==
    /\ SubmitShown
    /\ IF inputsMissing(leftImage, rightImage)
       THEN /\ error' = MissingInputMsg
            /\ UNCHANGED << leftImage, rightImage, generatedVideoUrl, isLoading, loadingMessage >>
            /\ UNCHANGED << tickerVars, mounted, uploaderVars, chainVars, histVars >>
       ELSE /\ Cardinality(Started) < MaxAttempts
            /\ LET a == Cardinality(Started) + 1 IN
               /\ pc' = [pc EXCEPT ![a] = "combineImages"]
               /\ leftLoaded' = [leftLoaded EXCEPT ![a] = FALSE]
               /\ rightLoaded' = [rightLoaded EXCEPT ![a] = FALSE]
            /\ LET u == submitUpdates(error, generatedVideoUrl) IN
               /\ isLoading' = u.isLoading
               /\ error' = u.error
               /\ generatedVideoUrl' = u.generatedVideoUrl
               /\ Rerender(u.isLoading, u.generatedVideoUrl)
            /\ trace' = << "combineImages" >>
            /\ thrown' = << >>
            /\ UNCHANGED << leftImage, rightImage, loadingMessage, mounted, result >>

\* combineImages: an image's onload; with both loaded, onBothLoaded draws the
\* composite unless getContext gave null (ctx = FALSE), and the handler goes
\* on to generateHuggingVideo, which calls ai.models.generateVideos
imageOnload(a, s, ctx) ==
    /\ pc[a] = "combineImages"
    /\ IF s = "left" THEN ~leftLoaded[a] ELSE ~rightLoaded[a]
    /\ leftLoaded' = IF s = "left" THEN [leftLoaded EXCEPT ![a] = TRUE] ELSE leftLoaded
    /\ rightLoaded' = IF s = "right" THEN [rightLoaded EXCEPT ![a] = TRUE] ELSE rightLoaded
    /\ IF leftLoaded'[a] /\ rightLoaded'[a]
       THEN IF ctx
            THEN /\ pc' = [pc EXCEPT ![a] = "generateVideos"]
                 /\ trace' = trace \o << "composite", "generateVideos" >>
                 /\ UNCHANGED << appVars, tickerVars, mounted, uploaderVars, thrown >>
            ELSE /\ settle(a, FALSE, handlerMessage(NewError(NoContextMsg)))
                 /\ UNCHANGED histVars
       ELSE UNCHANGED << appVars, tickerVars, mounted, uploaderVars, pc, histVars >>
    /\ UNCHANGED result

\* mutant: a failed image load is ignored and the handler goes on to
\* generateHuggingVideo
imageOnerrorIgnored(a, s) ==
    /\ pc[a] = "combineImages"
    /\ IF s = "left" THEN ~leftLoaded[a] ELSE ~rightLoaded[a]
    /\ pc' = [pc EXCEPT ![a] = "generateVideos"]
    /\ trace' = Append(trace, "generateVideos")
    /\ UNCHANGED << appVars, tickerVars, mounted, uploaderVars, thrown >>
    /\ UNCHANGED << leftLoaded, rightLoaded, result >>

\* combineImages: an image's onerror rejects the promise
imageOnerror(a, s) ==
    /\ pc[a] = "combineImages"
    /\ IF s = "left" THEN ~leftLoaded[a] ELSE ~rightLoaded[a]
    /\ settle(a, FALSE, handlerMessage(NewError(IF s = "left" THEN LeftLoadMsg ELSE RightLoadMsg)))
    /\ UNCHANGED << leftLoaded, rightLoaded, result, histVars >>

\* mutant: the download link is not tested before the fetch
retrieveNoLinkTest(a, op) ==
    /\ pc' = [pc EXCEPT ![a] = "fetch"]
    /\ trace' = trace \o << "done", "fetch" >>
    /\ UNCHANGED << appVars, tickerVars, mounted, uploaderVars, thrown >>

\* generateHuggingVideo once pollOperation returned the final operation: the
\* download link test and the call of fetch
retrieve(a, op) ==
    IF ~op.uri
    THEN serviceFails(a, NewError(NoLinkMsg), Append(trace, "done"))
    ELSE /\ pc' = [pc EXCEPT ![a] = "fetch"]
         /\ trace' = trace \o << "done", "fetch" >>
         /\ UNCHANGED << appVars, tickerVars, mounted, uploaderVars, thrown >>

\* pollOperation's loop test on the operation it holds: not done, it waits
\* for the timeout; done, it returns and retrieval begins
pollOperation(a, op) ==
    /\ result' = [result EXCEPT ![a] = op]
    /\ IF ~op.done
       THEN /\ pc' = [pc EXCEPT ![a] = "setTimeout"]
            /\ trace' = Append(trace, "notDone")
            /\ UNCHANGED << appVars, tickerVars, mounted, uploaderVars, thrown >>
       ELSE retrieve(a, op)

generateVideosReturns(a, op) ==
    /\ pc[a] = "generateVideos"
    /\ op.done \/ MaxPolls > 0
    /\ pollOperation(a, op)
    /\ UNCHANGED << leftLoaded, rightLoaded >>

generateVideosThrows(a, e) ==
    /\ pc[a] = "generateVideos"
    /\ serviceFails(a, e, trace)
    /\ UNCHANGED << leftLoaded, rightLoaded, result >>

\* mutant: pollOperation queries again without waiting
setTimeoutSkipped(a) ==
    /\ pc[a] = "setTimeout"
    /\ pc' = [pc EXCEPT ![a] = "getVideosOperation"]
    /\ trace' = Append(trace, "getVideosOperation")
    /\ UNCHANGED << appVars, tickerVars, mounted, uploaderVars, thrown >>
    /\ UNCHANGED << leftLoaded, rightLoaded, result >>

\* the 10 s timeout of pollOperation elapses and getVideosOperation is called
setTimeoutFires(a) ==
    /\ pc[a] = "setTimeout"
    /\ pc' = [pc EXCEPT ![a] = "getVideosOperation"]
    /\ trace' = trace \o << "wait", "getVideosOperation" >>
    /\ UNCHANGED << appVars, tickerVars, mounted, uploaderVars, thrown >>
    /\ UNCHANGED << leftLoaded, rightLoaded, result >>

getVideosOperationReturns(a, op) ==
    /\ pc[a] = "getVideosOperation"
    /\ op.done \/ Count(trace, "getVideosOperation") < MaxPolls
    /\ pollOperation(a, op)
    /\ UNCHANGED << leftLoaded, rightLoaded >>

getVideosOperationThrows(a, e) ==
    /\ pc[a] = "getVideosOperation"
    /\ serviceFails(a, e, trace)
    /\ UNCHANGED << leftLoaded, rightLoaded, result >>

\* mutant: the response's ok flag is not tested
fetchReturnsIgnoringOk(a, ok, statusText) ==
    /\ pc[a] = "fetch"
    /\ trace' = Append(trace, IF ok THEN "fetchOk" ELSE "fetchNotOk")
    /\ pc' = [pc EXCEPT ![a] = "blob"]
    /\ UNCHANGED << appVars, tickerVars, mounted, uploaderVars, thrown >>
    /\ UNCHANGED << leftLoaded, rightLoaded, result >>

\* fetch resolves with a response: ok, or not ok with a status text
fetchReturns(a, ok, statusText) ==
    /\ pc[a] = "fetch"
    /\ IF ok
       THEN /\ pc' = [pc EXCEPT ![a] = "blob"]
            /\ trace' = Append(trace, "fetchOk")
            /\ UNCHANGED << appVars, tickerVars, mounted, uploaderVars, thrown >>
       ELSE serviceFails(a, NewError(DownloadPrefix \o statusText),
                         Append(trace, "fetchNotOk"))
    /\ UNCHANGED << leftLoaded, rightLoaded, result >>

fetchThrows(a, e) ==
    /\ pc[a] = "fetch"
    /\ serviceFails(a, e, trace)
    /\ UNCHANGED << leftLoaded, rightLoaded, result >>

\* videoResponse.blob() resolves; URL.createObjectURL names the video
blobReturns(a) ==
    /\ pc[a] = "blob"
    /\ trace' = Append(trace, "blob")
    /\ settle(a, TRUE, a)
    /\ UNCHANGED << leftLoaded, rightLoaded, result, thrown >>

blobThrows(a, e) ==
    /\ pc[a] = "blob"
    /\ serviceFails(a, e, trace)
    /\ UNCHANGED << leftLoaded, rightLoaded, result >>

\* the interval callback of timer t
intervalFires(t) ==
    /\ t \in timers
    /\ IF mounted
       THEN loadingMessage' = nextLoadingMessage(loadingMessage)
       ELSE UNCHANGED loadingMessage
    /\ UNCHANGED << leftImage, rightImage, generatedVideoUrl, isLoading, error >>
    /\ UNCHANGED << tickerVars, mounted, uploaderVars, chainVars, histVars >>

\* mutant: closing the error banner also clears both inputs
dismissErrorAndInputs ==
    /\ mounted
    /\ error # NoMsg
    /\ error' = NoMsg
    /\ leftImage' = Null
    /\ rightImage' = Null
    /\ UNCHANGED << generatedVideoUrl, isLoading, loadingMessage >>
    /\ UNCHANGED << tickerVars, mounted, uploaderVars, chainVars, histVars >>

\* the error banner's close button
dismissError ==
    /\ mounted
    /\ error # NoMsg
    /\ error' = NoMsg
    /\ UNCHANGED << leftImage, rightImage, generatedVideoUrl, isLoading, loadingMessage >>
    /\ UNCHANGED << tickerVars, mounted, uploaderVars, chainVars, histVars >>

\* mutant: "Create Another" clears the video and the error but not the inputs
createAnotherKeepInputs ==
    /\ mounted
    /\ generatedVideoUrl # Null
    /\ generatedVideoUrl' = Null
    /\ error' = NoMsg
    /\ Rerender(isLoading, Null)
    /\ UNCHANGED << leftImage, rightImage >>
    /\ UNCHANGED << isLoading, loadingMessage, mounted, chainVars, histVars >>

\* the "Create Another" button
createAnother ==
    /\ mounted
    /\ generatedVideoUrl # Null
    /\ generatedVideoUrl' = Null
    /\ leftImage' = Null
    /\ rightImage' = Null
    /\ error' = NoMsg
    /\ Rerender(isLoading, Null)
    /\ UNCHANGED << isLoading, loadingMessage, mounted, chainVars, histVars >>

\* the App component is unmounted (the page is left): the ticker effect's
\* cleanup runs and the state of App and of both uploaders is discarded (the
\* variables hold their initial values from then on).  FileReaders still
\* reading call setters of destroyed components only and are dropped; the
\* chain of an attempt in flight goes on.
unmount ==
    /\ mounted
    /\ mounted' = FALSE
    /\ timers' = effectCleanup(intervalRef, timers)
    /\ intervalRef' = Null
    /\ leftImage' = Null /\ rightImage' = Null
    /\ generatedVideoUrl' = Null
    /\ isLoading' = FALSE
    /\ loadingMessage' = loadingMessages[1]
    /\ error' = NoMsg
    /\ preview' = [s \in Slots |-> Null]
    /\ upError' = [s \in Slots |-> NoMsg]
    /\ pending' = << >>
    /\ UNCHANGED << nextTimer, chainVars, histVars >>

\* The workflow with its upload environment kept small: the user picks the
\* first image file, a non-image or nothing, and starts a read only when no
\* other read is pending.  The handler tests the inputs for null only, so the
\* workflow does not depend on which file a slot holds.
Next ==
    \/ /\ \E s \in Slots, sel \in Selections \ (Files \ {1}) :
             pending = << >> /\ handleFileChange(s, sel)
       /\ UNCHANGED << canvasVars, selected >>
    \/ /\ \E i \in 1..MaxPending, ok \in BOOLEAN : readerEnds(i, ok)
       /\ UNCHANGED << canvasVars, selected >>
    \/ /\ \E s \in Slots : handleRemoveImage(s)
       /\ UNCHANGED << canvasVars, selected >>
    \/ /\ handleGenerateVideo
       /\ UNCHANGED << canvasVars, selected >>
    \/ /\ \E a \in Attempts, s \in Slots, ctx \in BOOLEAN : imageOnload(a, s, ctx)
       /\ UNCHANGED << canvasVars, selected >>
    \/ /\ \E a \in Attempts, s \in Slots : imageOnerror(a, s)
       /\ UNCHANGED << canvasVars, selected >>
    \/ /\ \E a \in Attempts, op \in Operations : generateVideosReturns(a, op)
       /\ UNCHANGED << canvasVars, selected >>
    \/ /\ \E a \in Attempts, e \in Thrown : generateVideosThrows(a, e)
       /\ UNCHANGED << canvasVars, selected >>
    \/ /\ \E a \in Attempts : setTimeoutFires(a)
       /\ UNCHANGED << canvasVars, selected >>
    \/ /\ \E a \in Attempts, op \in Operations : getVideosOperationReturns(a, op)
       /\ UNCHANGED << canvasVars, selected >>
    \/ /\ \E a \in Attempts, e \in Thrown : getVideosOperationThrows(a, e)
       /\ UNCHANGED << canvasVars, selected >>
    \/ /\ \E a \in Attempts, ok \in BOOLEAN, st \in StatusTexts : fetchReturns(a, ok, st)
       /\ UNCHANGED << canvasVars, selected >>
    \/ /\ \E a \in Attempts, e \in Thrown : fetchThrows(a, e)
       /\ UNCHANGED << canvasVars, selected >>
    \/ /\ \E a \in Attempts : blobReturns(a)
       /\ UNCHANGED << canvasVars, selected >>
    \/ /\ \E a \in Attempts, e \in Thrown : blobThrows(a, e)
       /\ UNCHANGED << canvasVars, selected >>
    \/ /\ \E t \in timers : intervalFires(t)
       /\ UNCHANGED << canvasVars, selected >>
    \/ /\ dismissError
       /\ UNCHANGED << canvasVars, selected >>
    \/ /\ createAnother
       /\ UNCHANGED << canvasVars, selected >>
    \/ /\ unmount
       /\ UNCHANGED << canvasVars, selected >>

Spec == Init /\ [][Next]_vars

\* ================================================================ claims
\* the attempt started last
Latest == Cardinality(Started)
\* the latest attempt has ended
Settled == Started # {} /\ InFlight = {}

\* --------------------------------------------------------------- uploads
\* The two uploaders of an App that is never submitted: the user picks any
\* file while a slot shows its file input, up to MaxPending reads at a time,
\* and the FileReaders finish in any order.
selectFile(s, sel) ==
    /\ Len(pending) < MaxPending \/ sel \notin Files
    /\ handleFileChange(s, sel)
    /\ selected' = [selected EXCEPT ![s] = sel]
    /\ UNCHANGED canvasVars

readerFinishes(i, ok) ==
    /\ readerEnds(i, ok)
    /\ UNCHANGED << canvasVars, selected >>

removeImage(s) ==
    /\ handleRemoveImage(s)
    /\ selected' = [selected EXCEPT ![s] = NoFile]
    /\ UNCHANGED canvasVars

NextUpload ==
    \/ \E s \in Slots, sel \in Selections : selectFile(s, sel)
    \/ \E i \in 1..MaxPending, ok \in BOOLEAN : readerFinishes(i, ok)
    \/ \E s \in Slots : removeImage(s)

SpecUpload == Init /\ [][NextUpload]_vars

\* --------------------------------------------------------- combineImages
\* JavaScript numbers that are not integers are kept as exact fractions
\* num/den with den > 0.  The rounding of the double-precision division and
\* product is not modelled: it is far smaller than the distance of a
\* non-integer value of these dimensions from the next integer.
Frac(n, d) == [num |-> n, den |-> d]
Times(k, r) == Frac(k * r.num, r.den)
Plus(a, b) == Frac(a.num * b.den + b.num * a.den, a.den * b.den)

\* the conversion of a non-negative number to the unsigned long that the
\* width attribute of a canvas holds: the fraction is dropped
ToUnsignedLong(r) == r.num \div r.den

targetHeight == 720
aspectRatio(img) == Frac(img.width, img.height)
leftScaledWidth == Times(targetHeight, aspectRatio(leftImg))
rightScaledWidth == Times(targetHeight, aspectRatio(rightImg))

\* draw() of combineImages with a 2d context, both images loaded: the canvas
\* is sized, filled, and the right image is drawn at x = leftScaledWidth
draw ==
    /\ canvas = NoCanvas
    /\ leftImg # NoImage /\ rightImg # NoImage
    /\ canvas' = [width |-> ToUnsignedLong(Plus(leftScaledWidth, rightScaledWidth)),
                  height |-> targetHeight,
                  rightX |-> leftScaledWidth]
    /\ UNCHANGED << leftImg, rightImg, workflowVars, selected >>

\* another pair of images is loaded into a new canvas
nextImages ==
    /\ canvas # NoCanvas
    /\ canvas' = NoCanvas
    /\ \E l \in Images, r \in Images : leftImg' = l /\ rightImg' = r
    /\ UNCHANGED << workflowVars, selected >>

\* combineImages applied to every pair of decoded images of bounded size
InitCombine ==
    /\ InitApp
    /\ leftImg \in Images /\ rightImg \in Images
    /\ canvas = NoCanvas
    /\ selected = [s \in Slots |-> NoFile]

NextCombine == draw \/ nextImages

SpecCombine == InitCombine /\ [][NextCombine]_vars

\* One step of attempt a's promise chain: an image load event, the return or
\* failure of a collaborator call, or the timeout of the polling loop.
ChainStep(a) ==
    /\ UNCHANGED << canvasVars, selected >>
    /\ \/ \E s \in Slots, ctx \in BOOLEAN : imageOnload(a, s, ctx)
       \/ \E s \in Slots : imageOnerror(a, s)
       \/ \E op \in Operations : generateVideosReturns(a, op)
       \/ \E e \in Thrown : generateVideosThrows(a, e)
       \/ setTimeoutFires(a)
       \/ \E op \in Operations : getVideosOperationReturns(a, op)
       \/ \E e \in Thrown : getVideosOperationThrows(a, e)
       \/ \E ok \in BOOLEAN, st \in StatusTexts : fetchReturns(a, ok, st)
       \/ \E e \in Thrown : fetchThrows(a, e)
       \/ blobReturns(a)
       \/ \E e \in Thrown : blobThrows(a, e)

\* The workflow when every awaited call of an attempt eventually returns or
\* fails and every timeout eventually elapses; the job reports done at the
\* latest on status query MaxPolls (the guard of getVideosOperationReturns).
SpecFair == Init /\ [][Next]_vars /\ \A a \in Attempts : WF_vars(ChainStep(a))

\* C1: while an attempt is in flight the mounted App is loading and a click
\* on submit is impossible, so at most one generation attempt (one
\* combineImages / generateHuggingVideo chain) is in flight in every state.
C1_OneAttemptInFlight ==
    /\ Cardinality(InFlight) <= 1
    /\ mounted /\ InFlight # {} => isLoading
    /\ mounted /\ isLoading => ~ENABLED handleGenerateVideo

\* C1 witness: a second attempt is in flight, the first one having ended
C1_Witness ==
    /\ mounted /\ isLoading
    /\ Cardinality(Started) > 1
    /\ Cardinality(InFlight) = 1

\* C2: no step taken while an input is absent starts an attempt or makes a
\* call of the compositor or of the generation client, and a step that makes
\* the error the MissingInput message changes nothing else: leftImage,
\* rightImage, isLoading, generatedVideoUrl and the chains stay as they are.
C2_MissingInputBlocks ==
    /\ [][ mounted /\ (leftImage = Null \/ rightImage = Null) /\ InFlight = {}
             => Started' = Started /\ trace' = trace /\ pc' = pc ]_vars
    /\ [][ error' = MissingInputMsg /\ error # MissingInputMsg
             => /\ leftImage = Null \/ rightImage = Null
                /\ UNCHANGED << leftImage, rightImage, isLoading, generatedVideoUrl,
                                loadingMessage, tickerVars, mounted, uploaderVars,
                                chainVars, histVars >> ]_vars

\* C2 witness: the MissingInput error is shown with one input present and
\* the other absent, and nothing was ever started
C2_Witness ==
    /\ mounted /\ error = MissingInputMsg
    /\ leftImage # Null /\ rightImage = Null
    /\ Started = {} /\ trace = << >> /\ ~isLoading

C4_TickerLifetime ==
    /\ Cardinality(timers) <= 1
    /\ timers # {} => mounted /\ isLoading
    /\ mounted /\ isLoading => intervalRef # Null /\ timers = {intervalRef}
    /\ mounted /\ ~isLoading => intervalRef = Null

\* C4 witness: the App was unmounted while an attempt was in flight, and no
\* timer is left
C4_Witness ==
    /\ ~mounted
    /\ InFlight # {}
    /\ nextTimer > 1
    /\ timers = {}

\* C5: isLoading, a non-null generatedVideoUrl and a non-null error are never
\* true two at a time (Idle being the state where none of them is true,
\* exactly one of Idle, Compositing/Generating, Ready, Failed is active).
C5_OneStateActive ==
    /\ ~(isLoading /\ generatedVideoUrl # Null)
    /\ ~(isLoading /\ error # NoMsg)
    /\ ~(generatedVideoUrl # Null /\ error # NoMsg)

\* C5 witness: Ready after an earlier attempt that failed
C5_Witness ==
    /\ mounted /\ generatedVideoUrl # Null
    /\ Cardinality(Started) > 1
    /\ thrown = << >>

\* the three events of one more poll round, N times over
PollRounds(N) ==
    [i \in 1..(3 * N) |-> IF i % 3 = 1 THEN "notDone"
                          ELSE IF i % 3 = 2 THEN "wait" ELSE "getVideosOperation"]

\* the history of an attempt that composed, submitted, polled N more times,
\* saw the job done, fetched with an ok response and read the video bytes
ReadyTrace(N) ==
    << "combineImages", "composite", "generateVideos" >> \o PollRounds(N)
        \o << "done", "fetch", "fetchOk", "blob" >>

\* attempt a ends in this step
Settles(a) == pc[a] # "done" /\ pc'[a] = "done"

\* C6: the mounted App holds a video only when the attempt that made it got
\* a job handle from the submit call, then read the job done with a download
\* link, then fetched with an ok response and read its bytes, in that order
\* and with nothing thrown; a fetch is issued only right after the job was read done with a
\* link; and an attempt that ends in any other way ends with an error set and
\* no video.
C6_ReadyOnlyAfterDoneAndFetch ==
    /\ [](mounted /\ generatedVideoUrl # Null
            => /\ \E N \in 0..MaxPolls : trace = ReadyTrace(N)
               /\ generatedVideoUrl = Latest
               /\ pc[Latest] = "done"
               /\ result[Latest].done /\ result[Latest].uri
               /\ thrown = << >>)
    /\ [](\A j \in 1..Len(trace) :
            trace[j] = "fetch"
              => j > 1 /\ trace[j - 1] = "done" /\ result[Latest].done /\ result[Latest].uri)
    /\ [][ \A a \in Attempts :
             Settles(a) /\ mounted
               => /\ ~isLoading'
                  /\ \/ /\ generatedVideoUrl' = a /\ error' = NoMsg
                        /\ \E N \in 0..MaxPolls : trace' = ReadyTrace(N)
                     \/ /\ generatedVideoUrl' = Null /\ error' # NoMsg
                        /\ \A N \in 0..MaxPolls : trace' # ReadyTrace(N) ]_vars

\* C6 witness: Ready, after a job that was not done at first
C6_Witness ==
    /\ mounted /\ generatedVideoUrl # Null
    /\ trace = ReadyTrace(1)

\* C7 as stated: an accepted submit whose attempt has ended issued exactly
\* one job-submission call and at most one fetch.
C7_Original ==
    Settled => Count(trace, "generateVideos") = 1 /\ Count(trace, "fetch") <= 1

\* C7 amended: an attempt issues at most one job-submission call, exactly one
\* when combineImages produced the composite and none when it failed, and at
\* most one fetch; and while no attempt is in flight no call is issued unless
\* a new submit is accepted.
C7_NoRetry ==
    /\ [](/\ Count(trace, "generateVideos") <= 1
          /\ Count(trace, "generateVideos") = Count(trace, "composite")
          /\ Count(trace, "fetch") <= 1
          /\ Count(trace, "combineImages") <= 1)
    /\ [][ InFlight = {} /\ trace' # trace => Cardinality(Started') > Cardinality(Started) ]_vars
    /\ [][ \A a \in Attempts : pc[a] = "done" => pc'[a] = "done" ]_vars

\* C7 witness: an attempt failed at a status query and ended, with one
\* submission behind it
C7_Witness ==
    /\ mounted /\ Settled /\ error # NoMsg
    /\ Count(trace, "generateVideos") = 1
    /\ Count(trace, "getVideosOperation") = MaxPolls
    /\ Len(thrown) = 1 /\ thrown[1] \in Thrown

\* C8 as stated: whatever value was thrown inside generateHuggingVideo, the
\* error the App shows when the attempt ends carries the thrown value's message.
C8_Original ==
    [][ \A a \in Attempts :
          Settles(a) /\ mounted /\ thrown' # << >>
            => error' = ServicePrefix \o thrown'[1].message ]_vars

\* C8 amended: at most one value is thrown per attempt; when it is an Error
\* instance the error shown is the service prefix followed by its message;
\* when it is any other value the error shown is the fixed unknown-error
\* message, which does not carry the thrown value's text.
C8_ErrorWrapped ==
    /\ [](Len(thrown) <= 1)
    /\ [][ \A a \in Attempts :
             Settles(a) /\ mounted /\ thrown' # << >>
               => /\ generatedVideoUrl' = Null
                  /\ error' = IF thrown'[1].isError
                              THEN ServicePrefix \o thrown'[1].message
                              ELSE UnknownMsg ]_vars

\* C8 witness: a status query threw an Error and the App shows its message
\* behind the service prefix
C8_Witness ==
    /\ mounted /\ Settled
    /\ Len(thrown) = 1 /\ thrown[1] \in Thrown /\ thrown[1].isError
    /\ trace[Len(trace)] = "getVideosOperation"
    /\ error = ServicePrefix \o thrown[1].message

\* C9: when the job is read done without a download link, no fetch is issued,
\* the attempt ends there, and the mounted App shows the no-download-link
\* message and no video.
C9_NoLinkFails ==
    /\ [](Started # {} /\ result[Latest].done /\ ~result[Latest].uri
            => /\ Count(trace, "fetch") = 0
               /\ pc[Latest] = "done"
               /\ thrown = << NewError(NoLinkMsg) >>)
    /\ [][ \A a \in Attempts :
             Settles(a) /\ mounted /\ result'[a].done /\ ~result'[a].uri
               => /\ error' = ServicePrefix \o NoLinkMsg
                  /\ generatedVideoUrl' = Null
                  /\ ~isLoading' ]_vars

\* C9 witness: a status query answered done without a link and the App shows
\* the no-download-link message
C9_Witness ==
    /\ mounted /\ Settled
    /\ result[Latest].done /\ ~result[Latest].uri
    /\ Count(trace, "getVideosOperation") > 0
    /\ error = ServicePrefix \o NoLinkMsg

\* C10: a step of the mounted App in which the error goes away without a new
\* attempt starting leaves leftImage, rightImage, isLoading and
\* generatedVideoUrl as they are; with both inputs present before it, the
\* state after it shows the submit button (no video, not loading) and has
\* both inputs present, which is what the handler needs to accept a submit.
C10_DismissKeepsInputs ==
    [][ mounted /\ mounted' /\ error # NoMsg /\ error' = NoMsg /\ Started' = Started
          => /\ UNCHANGED << leftImage, rightImage, isLoading, generatedVideoUrl >>
             /\ UNCHANGED << pc, trace >>
             /\ leftImage # Null /\ rightImage # Null
                  => /\ generatedVideoUrl' = Null /\ ~isLoading'
                     /\ leftImage' # Null /\ rightImage' # Null ]_vars

\* C10 witness: a failed attempt's error was dismissed and both inputs are
\* still there
C10_Witness ==
    /\ mounted /\ Settled /\ thrown # << >>
    /\ error = NoMsg /\ generatedVideoUrl = Null /\ ~isLoading
    /\ leftImage # Null /\ rightImage # Null

\* C11: a step of the mounted App in which the video goes away (the reset
\* offered in Ready) ends with generatedVideoUrl, leftImage, rightImage and
\* error all absent and isLoading false, starts no attempt and leaves the
\* chains alone; that state shows the submit button and has both inputs
\* absent, so a submit in it takes the handler's MissingInput branch.  And
\* whenever the submit button is shown with an input absent, the handler can
\* only set the MissingInput error.
C11_ResetToIdle ==
    /\ [][ mounted /\ mounted' /\ generatedVideoUrl # Null /\ generatedVideoUrl' = Null
             => /\ leftImage' = Null /\ rightImage' = Null
                /\ error' = NoMsg
                /\ ~isLoading'
                /\ UNCHANGED << pc, trace, loadingMessage, tickerVars >> ]_vars
    /\ [](mounted /\ generatedVideoUrl = Null /\ ~isLoading
            /\ (leftImage = Null \/ rightImage = Null)
            => /\ ENABLED (handleGenerateVideo /\ error' = MissingInputMsg)
               /\ ~ENABLED (handleGenerateVideo /\ pc' # pc))

\* C11 witness: after a video was made and reset, a submit was blocked with
\* the MissingInput error
C11_Witness ==
    /\ mounted /\ Settled
    /\ \E N \in 0..MaxPolls : trace = ReadyTrace(N)
    /\ generatedVideoUrl = Null /\ ~isLoading
    /\ leftImage = Null /\ rightImage = Null
    /\ error = MissingInputMsg

\* C12: when every collaborator call eventually returns or fails and the job
\* eventually reports done, every accepted submit of the mounted App
\* eventually leaves loading, and the step that leaves loading ends with
\* exactly one of a video (Ready) and an error message (Failed); every
\* attempt's chain runs to its end.
C12_SubmitSettles ==
    /\ \A a \in Attempts : (pc[a] \notin {"none", "done"}) ~> (pc[a] = "done")
    /\ (mounted /\ isLoading)
          ~> (~mounted \/ (~isLoading /\ ((generatedVideoUrl # Null) # (error # NoMsg))))
    /\ [][ mounted /\ mounted' /\ isLoading /\ ~isLoading'
             => /\ (generatedVideoUrl' # Null) # (error' # NoMsg)
                /\ \E a \in Attempts : Settles(a) ]_vars
    /\ [](mounted /\ isLoading => InFlight # {})

\* C12 witness: a second attempt has failed after polling, and the App shows
\* the failure and is not loading
C12_Witness ==
    /\ mounted /\ Settled /\ Latest = MaxAttempts
    /\ ~isLoading
    /\ error # NoMsg /\ generatedVideoUrl = Null
    /\ Count(trace, "getVideosOperation") > 0

\* C13: a decode error in an upload slot (a file that is not an image, or a
\* FileReader that fails) leaves that slot's input absent and the workflow
\* where it was: the App's error, video, loading flag and attempts are not
\* touched, only that slot's uploader error may change (to the invalid-file
\* message for a non-image, to the read-failure message for a failed read),
\* and the state after it has an input absent, so that a submit there can
\* only set the MissingInput error.
C13_DecodeErrorStaysLocal ==
    /\ [][ \A s \in Slots :
             \/ handleFileChange(s, NonImage)
             \/ \E i \in 1..Len(pending) : pending[i].slot = s /\ readerEnds(i, FALSE)
             => /\ (IF s = "left" THEN leftImage' ELSE rightImage') = Null
                /\ error' = error
                /\ generatedVideoUrl' = generatedVideoUrl
                /\ isLoading' = isLoading
                /\ pc' = pc
                /\ \A o \in Slots \ {s} : upError'[o] = upError[o]
                /\ upError'[s] \in {upError[s], InvalidFileMsg, ReadFailMsg}
                /\ handleFileChange(s, NonImage) => upError'[s] = InvalidFileMsg ]_vars
    /\ [](SubmitShown /\ (leftImage = Null \/ rightImage = Null)
            => ~ENABLED (handleGenerateVideo /\ (isLoading' \/ error' # MissingInputMsg)))

\* C13 witness: the left slot shows the invalid-file message and holds no
\* input, the right slot holds one, no attempt was ever started, and a submit
\* was blocked with the MissingInput error
C13_Witness ==
    /\ mounted /\ Started = {}
    /\ upError["left"] = InvalidFileMsg
    /\ leftImage = Null /\ rightImage # Null
    /\ error = MissingInputMsg

\* C14: for every pair of source images with positive integer dimensions
\* the composite canvas has height exactly 720 and width exactly
\* 720 * w1 / h1 + 720 * w2 / h2.
C14_CanvasExact ==
    canvas # NoCanvas
       => /\ canvas.height = 720
          /\ canvas.width * (leftImg.height * rightImg.height)
               = 720 * (leftImg.width * rightImg.height + rightImg.width * leftImg.height)

\* C15: the displayed progress message is always one of the 7 messages of
\* the fixed list; every tick of the ticker in the mounted App replaces the
\* message at position i of the list by the one at position (i + 1) mod 7
\* (the last by the first), and while the App stays mounted and loading the
\* message changes in no other way, so no message is skipped or repeated out
\* of order.
C15_TickerCycles ==
    /\ [](\E i \in 1..7 : loadingMessage = loadingMessages[i])
    /\ Len(loadingMessages) = 7
    /\ [][ \A i \in 1..7 :
             /\ loadingMessage = loadingMessages[i]
             /\ \/ mounted /\ \E t \in timers : intervalFires(t)
                \/ mounted' /\ isLoading /\ isLoading' /\ loadingMessage' # loadingMessage
             => /\ loadingMessage' = loadingMessages[(i % 7) + 1]
                /\ isLoading /\ timers # {} ]_vars

\* C15 witness: the App is loading and the ticker has advanced the message
\* to the last of the list, whose successor is the first
C15_Witness ==
    /\ mounted /\ isLoading /\ timers # {}
    /\ loadingMessage = loadingMessages[7]
    /\ nextLoadingMessage(loadingMessage) = loadingMessages[1]
    /\ Latest = 1

\* C16: when combineImages fails (an image's onerror fires, or getContext
\* gives null once both images are loaded) the attempt of the mounted App
\* ends at once in Failed: the error is the compositor's message, no video is
\* set and loading is over; the generation client is never called for that
\* attempt: its trace holds the combineImages call alone, and a trace without
\* a composite never holds a generateVideos call, a status query or a fetch.
C16_CompositorFailure ==
    /\ [][ \A a \in Attempts :
             /\ mounted
             /\ \/ \E s \in Slots : imageOnerror(a, s)
                \/ \E s \in Slots : imageOnload(a, s, FALSE) /\ pc'[a] = "done"
             => /\ pc[a] = "combineImages" /\ pc'[a] = "done"
                /\ error' \in {LeftLoadMsg, RightLoadMsg, NoContextMsg}
                /\ generatedVideoUrl' = Null
                /\ ~isLoading'
                /\ trace' = << "combineImages" >> ]_vars
    /\ [](Count(trace, "composite") = 0
            => /\ trace \in {<< >>, << "combineImages" >>}
               /\ \A a \in Attempts : a = Latest => pc[a] \in {"combineImages", "done"})
    /\ [][ InFlight = {} /\ InFlight' = {} => trace' = trace ]_vars

\* C16 witness: the second attempt ended when the right image failed to
\* load; the App shows that message and made no call to the generation
\* client in that attempt
C16_Witness ==
    /\ mounted /\ Settled /\ Latest = MaxAttempts
    /\ trace = << "combineImages" >>
    /\ error = RightLoadMsg
    /\ ~isLoading /\ generatedVideoUrl = Null

\* C17: after the App is torn down no further status query and no video
\* fetch is issued, and no App state variable is written: once unmounted,
\* the counts of getVideosOperation calls and of fetch calls stay as they
\* are and the App state does not change.
C17_TeardownStopsPolling ==
    [][ ~mounted
          => /\ Count(trace', "getVideosOperation") = Count(trace, "getVideosOperation")
             /\ Count(trace', "fetch") = Count(trace, "fetch")
             /\ UNCHANGED appVars ]_vars

\* C18: whenever the uploaders are displayed, each slot shows a preview
\* exactly when the App holds an input for that slot (preview non-null iff
\* leftImage, respectively rightImage, non-null).
C18_PreviewMatchesInput ==
    UploadersShown
       => \A s \in Slots : (preview[s] # Null) <=> (slotImage(s) # Null)

\* C19: once no read of a slot is pending, the slot's input is the file the
\* user chose last in that slot, or absent if that choice was no file, a
\* non-image or a removal (or if the read failed, the slot then showing the
\* read-failure message); and a slot never holds an input while it displays
\* a decode error.
C19_LastSelectionWins ==
    \A s \in Slots :
       /\ (\A i \in 1..Len(pending) : pending[i].slot # s)
             => IF selected[s] \in Files
                THEN \/ slotImage(s) = selected[s]
                     \/ slotImage(s) = Null /\ upError[s] = ReadFailMsg
                ELSE slotImage(s) = Null
       /\ upError[s] # NoMsg => slotImage(s) = Null

\* C20: on every entry into loading, on the first attempt and on every
\* later one, the displayed progress message is the first message of the
\* list.
C20_LoadingStartsAtFirstMessage ==
    [][ ~isLoading /\ isLoading' => loadingMessage' = loadingMessages[1] ]_vars

====
